---- MODULE Spec2Model ----
(***************************************************************************)
(* Model of the keyword-match verification of                              *)
(* NIMAR/search/elastic-search-advance-search-timeline.py:                 *)
(* SimpleSearchFunctions.verify_keyword_in_media_cards with its nested     *)
(* helpers clean_text and check_keyword_match.                             *)
(*                                                                         *)
(* Text is a sequence of one-character strings.  The results of the        *)
(* fuzzywuzzy library (fuzz.partial_ratio, ...) are inputs of the model:   *)
(* the library is not part of the repository.                              *)
(*                                                                         *)
(* Further down: validate_sequence (uploads/upload-sequence-validation.py),*)
(* get_latest_otp_after_request (auth/otp.py), _wait_and_click_start with  *)
(* _click_portal_start_upload (uploads/single_zipfile_upload.py) and       *)
(* verify_sorting, each with a specification of its own over the same      *)
(* variables; the variables of the functions that do not run keep their    *)
(* idle values.                                                            *)
(***************************************************************************)
EXTENDS Integers, Sequences, FiniteSets, TLC

(***************************************************************************)
(* Characters and the Python string operations the code uses               *)
(***************************************************************************)
LowerLetters ==
    <<"a","b","c","d","e","f","g","h","i","j","k","l","m",
      "n","o","p","q","r","s","t","u","v","w","x","y","z">>

UpperLetters ==
    <<"A","B","C","D","E","F","G","H","I","J","K","L","M",
      "N","O","P","Q","R","S","T","U","V","W","X","Y","Z">>

Digits == {"0","1","2","3","4","5","6","7","8","9"}

Range(f) == {f[i] : i \in DOMAIN f}

\* \s of the re module, over the characters of the model
IsSpace(c) == c \in {" ", "\t", "\n", "\r"}

\* \d of the re module
IsDigit(c) == c \in Digits

WordChars == Range(LowerLetters) \cup Range(UpperLetters) \cup Digits \cup {"_"}

\* \w of the re module
IsWordChar(c) == c \in WordChars

UpperSet == Range(UpperLetters)

LowerChar(c) ==
    IF c \in UpperSet
    THEN LowerLetters[CHOOSE i \in DOMAIN UpperLetters : UpperLetters[i] = c]
    ELSE c

\* str.lower()
lower(s) == [i \in 1..Len(s) |-> LowerChar(s[i])]

\* str.strip()
strip(s) ==
    LET keep == {i \in 1..Len(s) : ~IsSpace(s[i])}
    IN  IF keep = {} THEN <<>>
        ELSE LET lo == CHOOSE i \in keep : \A j \in keep : i <= j
                 hi == CHOOSE i \in keep : \A j \in keep : j <= i
             IN  SubSeq(s, lo, hi)

\* sub in s
Contains(sub, s) ==
    \E i \in 1..(Len(s) - Len(sub) + 1) : \A k \in 1..Len(sub) : s[i + k - 1] = sub[k]

\* the text at position i of s starts with w
StartsAt(w, s, i) ==
    /\ i + Len(w) - 1 <= Len(s)
    /\ \A k \in 1..Len(w) : s[i + k - 1] = w[k]

RECURSIVE SplitFrom(_, _)
SplitFrom(s, i) ==
    IF i > Len(s) THEN <<>>
    ELSE IF IsSpace(s[i]) THEN SplitFrom(s, i + 1)
    ELSE LET stops == {j \in i..Len(s) : IsSpace(s[j])}
             e == IF stops = {} THEN Len(s) + 1
                  ELSE CHOOSE j \in stops : \A k \in stops : j <= k
         IN  <<SubSeq(s, i, e - 1)>> \o SplitFrom(s, e)

\* str.split(): the maximal runs of non-whitespace
split(s) == SplitFrom(s, 1)

RECURSIVE JoinFrom(_, _)
JoinFrom(parts, i) ==
    IF i > Len(parts) THEN <<>>
    ELSE IF i = Len(parts) THEN parts[i]
    ELSE parts[i] \o <<" ">> \o JoinFrom(parts, i + 1)

\* " ".join(parts)
join(parts) == JoinFrom(parts, 1)

(***************************************************************************)
(* The regular expressions of clean_text                                   *)
(***************************************************************************)
\* \b at the gap before position p of s (p = Len(s) + 1: the end)
WordAt(s, p) == p >= 1 /\ p <= Len(s) /\ IsWordChar(s[p])

Boundary(s, p) == WordAt(s, p - 1) # WordAt(s, p)

skip_words ==
    << <<"s","e","e"," ","d","e","t","a","i","l","s">>,
       <<"m","p","4">>, <<"p","d","f">>, <<"x","l","s">>, <<"z","i","p">>,
       <<"m","o","v">>, <<"m","k","v">>, <<"j","p","g">>, <<"p","n","g">>,
       <<"a","v","i","f">>, <<"s","v","g">>, <<"t","i","f">> >>

\* length of the match of \b w \b at position i of s, 0 when there is none
SkipWordLenAt(w, s, i) ==
    IF StartsAt(w, s, i) /\ Boundary(s, i) /\ Boundary(s, i + Len(w))
    THEN Len(w) ELSE 0

\* number of digits at positions i, i+1, ... of s
RECURSIVE DigitRun(_, _)
DigitRun(s, i) ==
    IF i <= Len(s) /\ IsDigit(s[i]) THEN 1 + DigitRun(s, i + 1) ELSE 0

\* :\d{2} at position i
ColonTwoDigits(s, i) ==
    /\ i + 2 <= Len(s)
    /\ s[i] = ":" /\ IsDigit(s[i + 1]) /\ IsDigit(s[i + 2])

\* \b(\d{1,2}:\d{2}(?::\d{2})?)\b at position i: the length matched, 0 for none.
\* \d{1,2} is greedy; with fewer digits than the run the next character is a
\* digit and not ':', so only the whole run of one or two digits can match.
\* The optional group is tried first and given up when \b fails after it.
DurationLenAt(s, i) ==
    LET d == DigitRun(s, i)
        k == IF d >= 2 THEN 2 ELSE d
    IN  IF ~(Boundary(s, i) /\ k >= 1 /\ ColonTwoDigits(s, i + k)) THEN 0
        ELSE IF ColonTwoDigits(s, i + k + 3) /\ Boundary(s, i + k + 6) THEN k + 6
        ELSE IF Boundary(s, i + k + 3) THEN k + 3
        ELSE 0

\* \b\d+(?:\.\d+)?\s?(?:kb|mb|gb)\b at position i: the length matched, 0 for none.
\* Every quantifier is followed by a character class disjoint from its own,
\* so backtracking finds nothing the greedy choice misses.
SizeLenAt(s, i) ==
    LET d == DigitRun(s, i)
        f == IF i + d <= Len(s) /\ s[i + d] = "." /\ DigitRun(s, i + d + 1) >= 1
             THEN 1 + DigitRun(s, i + d + 1) ELSE 0
        j == i + d + f
        sp == IF j <= Len(s) /\ IsSpace(s[j]) THEN 1 ELSE 0
        u == j + sp
    IN  IF /\ Boundary(s, i) /\ d >= 1
           /\ u + 1 <= Len(s)
           /\ s[u] \in {"k", "m", "g"} /\ s[u + 1] = "b"
           /\ Boundary(s, u + 2)
        THEN d + f + sp + 2 ELSE 0

\* The three kinds of pattern clean_text removes
WordPattern(w) == [kind |-> "word", word |-> w]

DurationPattern == [kind |-> "duration"]

SizePattern == [kind |-> "size"]

MatchLenAt(pat, s, i) ==
    IF pat.kind = "duration" THEN DurationLenAt(s, i)
    ELSE IF pat.kind = "size" THEN SizeLenAt(s, i)
    ELSE SkipWordLenAt(pat.word, s, i)

RECURSIVE SubFrom(_, _, _)
SubFrom(pat, s, i) ==
    IF i > Len(s) THEN <<>>
    ELSE LET n == MatchLenAt(pat, s, i)
         IN  IF n > 0 THEN SubFrom(pat, s, i + n)
             ELSE <<s[i]>> \o SubFrom(pat, s, i + 1)

\* re.sub(pattern, '', s): the leftmost matches, not overlapping, are removed
re_sub(pat, s) == SubFrom(pat, s, 1)

RECURSIVE RemoveSkipWords(_, _)
\* for w in skip_words: text_lower = re.sub(r'\b' + re.escape(w) + r'\b', '', text_lower)
RemoveSkipWords(s, k) ==
    IF k > Len(skip_words) THEN s
    ELSE RemoveSkipWords(re_sub(WordPattern(skip_words[k]), s), k + 1)

\* re.sub(r"\s+", " ", s).strip()
NormalizeWhitespace(s) == join(split(s))

clean_text(text) ==
    IF text = <<>> THEN <<>>
    ELSE NormalizeWhitespace(
             re_sub(SizePattern, re_sub(DurationPattern, RemoveSkipWords(lower(text), 1))))

(***************************************************************************)
(* check_keyword_match                                                     *)
(***************************************************************************)
\* A score: num / den.  The library's scores and the fixed scores 0, 95, 100
\* are integers (den = 1); (words_found / len(keyword_words)) * 100 is not.
Score(n) == [num |-> n, den |-> 1]

\* max(a, b)
Max2(a, b) == IF a >= b THEN a ELSE b

\* sum(1 for word in keyword_words if word in metadata_clean)
RECURSIVE CountWordsFrom(_, _, _)
CountWordsFrom(words, text, i) ==
    IF i > Len(words) THEN 0
    ELSE (IF Contains(words[i], text) THEN 1 ELSE 0) + CountWordsFrom(words, text, i + 1)

\* words_found counting only the words that are whole tokens of the text
words_found_tokens(keyword_words, metadata_clean) ==
    Cardinality({i \in DOMAIN keyword_words :
                    keyword_words[i] \in Range(split(metadata_clean))})

words_found(keyword_words, metadata_clean) == CountWordsFrom(keyword_words, metadata_clean, 1)

\* the mutant of best_score: the sum of the scores
best_score_sum(fz) == fz.partial + fz.token_sort + fz.token_set + fz.wr + fz.ratio

\* max(partial_score, token_sort_score, token_set_score, wr_score, ratio_score)
best_score(fz) ==
    Max2(fz.partial, Max2(fz.token_sort, Max2(fz.token_set, Max2(fz.wr, fz.ratio))))

\* method with the chain of comparisons in the opposite order
method_reversed(fz) ==
    IF best_score(fz) = fz.ratio THEN "ratio"
    ELSE IF best_score(fz) = fz.wr THEN "WRatio"
    ELSE IF best_score(fz) = fz.token_set THEN "token_set_ratio"
    ELSE IF best_score(fz) = fz.token_sort THEN "token_sort_ratio"
    ELSE "partial_ratio"

\* the strategy the best score is attributed to
method(fz) ==
    IF best_score(fz) = fz.partial THEN "partial_ratio"
    ELSE IF best_score(fz) = fz.token_sort THEN "token_sort_ratio"
    ELSE IF best_score(fz) = fz.token_set THEN "token_set_ratio"
    ELSE IF best_score(fz) = fz.wr THEN "WRatio"
    ELSE "ratio"

\* match_rule with best_score > threshold for best_score >= threshold
match_rule_strict(fz, thr) ==
    IF fz.partial >= 50 THEN "partial"
    ELSE IF fz.token_sort >= 60 \/ fz.token_set >= 60 THEN "token"
    ELSE IF best_score(fz) > thr THEN "threshold"
    ELSE IF fz.wr >= 60 THEN "wratio"
    ELSE IF best_score(fz) >= 50 THEN "lenient"
    ELSE "none"

\* match_rule without the test of best_score against the threshold
match_rule_no_threshold(fz, thr) ==
    IF fz.partial >= 50 THEN "partial"
    ELSE IF fz.token_sort >= 60 \/ fz.token_set >= 60 THEN "token"
    ELSE IF fz.wr >= 60 THEN "wratio"
    ELSE IF best_score(fz) >= 50 THEN "lenient"
    ELSE "none"

\* the mutant of match_rule: only the test of best_score against the threshold
match_rule_threshold_only(fz, thr) ==
    IF best_score(fz) >= thr THEN "threshold" ELSE "none"

\* the if / elif chain that sets is_match: the first rule that holds, "none"
\* when the chain falls through
match_rule(fz, thr) ==
    IF fz.partial >= 50 THEN "partial"
    ELSE IF fz.token_sort >= 60 \/ fz.token_set >= 60 THEN "token"
    ELSE IF best_score(fz) >= thr THEN "threshold"
    ELSE IF fz.wr >= 60 THEN "wratio"
    ELSE IF best_score(fz) >= 50 THEN "lenient"
    ELSE "none"

FuzzyStrategies == {"partial_ratio", "token_sort_ratio", "token_set_ratio", "WRatio", "ratio"}

\* keyword.lower().strip()
clean_keyword(kw) == strip(lower(kw))

\* no_text without the test of the cleaned text
no_text_raw_only(text, mc) == text = <<>>

\* the two early returns: not metadata_text, not metadata_clean
no_text(text, mc) == text = <<>> \/ mc = <<>>

\* exact_match without keyword.lower()
exact_match_cased(kw, mc) == Contains(strip(kw), mc)

\* Strategy 1: keyword_clean in metadata_clean
exact_match(kw, mc) == Contains(clean_keyword(kw), mc)

\* enough_words with 50 for 70
enough_words_half(found, n) == found * 100 >= 50 * n

\* enough_words with 65 for 70
enough_words_two_thirds(found, n) == found * 100 >= 65 * n

\* word_match_percentage >= 70, for (words_found / len(keyword_words)) * 100
enough_words(found, n) == found * 100 >= 70 * n

\* Strategy 2: what the block for multi-word keywords returns: "all",
\* "partial", or "fall" when control falls through to the fuzzy strategies
words_outcome(n, found) ==
    IF n > 1
    THEN IF found = n THEN "all"
         ELSE IF found > 0 /\ enough_words(found, n) THEN "partial"
         ELSE "fall"
    ELSE "fall"

\* The returned tuple (is_match, best_score, method) is a record that also
\* holds the locals that tell the path taken: metadata_clean; evaluated, the
\* strategies whose test or score was computed; rule, the branch of the
\* final chain that decided.
Returned(is_match, score, meth, mc, evaluated, rule) ==
    [is_match |-> is_match, best_score |-> score, method |-> meth,
     metadata_clean |-> mc, evaluated |-> evaluated, rule |-> rule]

\* Strategies 3 to 7 and the final chain
fuzzy_step(words, mc, thr, fz, rule) ==
    Returned(rule # "none", Score(best_score(fz)), method(fz), mc,
             {"exact_match"} \cup words \cup FuzzyStrategies, rule)

\* from Strategy 2 on, for a keyword of n words, found of them in the text
words_step(n, found, outcome, mc, thr, fz) ==
    IF outcome = "all"
    THEN Returned(TRUE, Score(95), "all_words_match", mc,
                  {"exact_match", "words"}, "none")
    ELSE IF outcome = "partial"
    THEN Returned(TRUE, [num |-> found * 100, den |-> n], "partial_words_match", mc,
                  {"exact_match", "words"}, "none")
    ELSE fuzzy_step(IF n > 1 THEN {"words"} ELSE {}, mc, thr, fz, match_rule(fz, thr))

\* the body of check_keyword_match once metadata_clean (mc) and
\* words_found (found) are known
match_cleaned(kw, text, mc, n, found, thr, fz) ==
    IF no_text(text, mc)
    THEN Returned(FALSE, Score(0), "None", mc, {}, "none")
    ELSE IF exact_match(kw, mc)
    THEN Returned(TRUE, Score(100), "exact_match", mc, {"exact_match"}, "none")
    ELSE words_step(n, found, words_outcome(n, found), mc, thr, fz)

\* keyword_words and words_found for the cleaned text mc
match_words(kw, text, mc, keyword_words, thr, fz) ==
    match_cleaned(kw, text, mc, Len(keyword_words), words_found(keyword_words, mc), thr, fz)

\* fz holds what fuzz.partial_ratio, fuzz.token_sort_ratio, fuzz.token_set_ratio,
\* fuzz.WRatio and fuzz.ratio return for (keyword_clean, metadata_clean).
check_keyword_match(kw, text, thr, fz) ==
    match_words(kw, text, clean_text(text), split(clean_keyword(kw)), thr, fz)

(***************************************************************************)
(* Inputs                                                                  *)
(***************************************************************************)
\* longest metadata text, in pieces
MaxPieces == 3

\* longest keyword, in words
MaxWords == 4

\* what a card's text is made of: words (one of them in upper case), a blank,
\* a skip word, a word no keyword holds
Pieces == { <<"a">>, <<"B">>, <<" ">>, <<"m","p","4">>, <<"x">> }

RECURSIVE TextsOfLen(_)
TextsOfLen(n) ==
    IF n = 0 THEN {<<>>}
    ELSE {t \o p : t \in TextsOfLen(n - 1), p \in Pieces}

\* texts of words that other parts of the program treat as noise, and of a
\* duration next to a size
NoiseTexts ==
    { <<"a","v","i">>, <<"a"," ","o","t","h","e","r">>, <<"d","o","c","x">>,
      <<"1","2"," ","1",":","2","3"," ","m","b">> }

Texts == UNION {TextsOfLen(n) : n \in 0..MaxPieces} \cup NoiseTexts

KeywordWords == { <<"a">>, <<"b">> }

RECURSIVE WordSeqsOfLen(_)
WordSeqsOfLen(n) ==
    IF n = 0 THEN {<<>>}
    ELSE {ws \o <<w>> : ws \in WordSeqsOfLen(n - 1), w \in KeywordWords}

\* keywords of up to MaxWords words; the empty keyword; keywords in upper
\* case, padded, with two blanks between the words, holding a skip word
Keywords ==
    {join(ws) : ws \in UNION {WordSeqsOfLen(n) : n \in 0..MaxWords}}
    \cup { <<"A">>, <<" ","a"," ">>, <<" ">>, <<"m","p","4">>,
           <<"a"," "," ","b">>, <<"x"," ","m","p","4">> }

\* what the five fuzz calls may return
FuzzRecord(p, ts, tset, wr, r) ==
    [partial |-> p, token_sort |-> ts, token_set |-> tset, wr |-> wr, ratio |-> r]

NotCalled ==
    [is_match |-> FALSE, best_score |-> Score(0), method |-> "None",
     metadata_clean |-> <<>>, evaluated |-> {}, rule |-> "none"]

VARIABLES
    keyword,         \* the keyword argument
    threshold,       \* the threshold argument
    metadata_text,   \* the metadata_text argument of the last check_keyword_match
    fz,              \* what the fuzz library returns for this keyword and text
    result,          \* what check_keyword_match returned, with its locals
    pc,              \* check_keyword_match alone: "call", "returned";
                     \* verify_keyword_in_media_cards: "start", "loop", "done"
    deep_check,      \* the deep_check argument
    config,          \* who calls, the threshold supplied and the one configured
    cards,           \* the cards the selectors find in the results area
    card_idx,        \* the loop variable
    metadata,        \* what extract_comprehensive_metadata returned last
    dialog_result,   \* what check_keyword_match returned for the dialog text
    total,           \* cards inspected so far
    matched,         \* cards counted as matching
    mismatch_details,\* the list of mismatch entries
    match_percentage,\* the percentage reported in the summary
    returned,        \* the tuple verify_keyword_in_media_cards returned
    call,            \* 1: the first call on this page, 2: the second
    first_returned   \* the tuple the first call returned

\* ValidationHandler.validate_sequence (uploads/upload-sequence-validation.py)
VARIABLES
    expected_files,  \* the expected_files argument
    modal,           \* how opening the modal goes: "ok", "raises", "no_bucket"
    views,           \* what the modal shows at each position
    next_fails,      \* the position whose Next click raises, 0: none
    seq_idx,         \* the loop variable idx
    results,         \* the list results
    all_matched      \* what validate_sequence returned: "True", "False"

\* OTPHandler.get_latest_otp_after_request (auth/otp.py)
VARIABLES
    request_time,    \* the request_time argument
    retries,         \* self.retries
    imap,            \* how connecting goes and whether logout raises
    mailbox,         \* what each poll finds in the inbox
    polls,           \* the polls made so far
    otp              \* what get_latest_otp_after_request returned

\* UploadHandler._wait_and_click_start with _click_portal_start_upload
\* (uploads/single_zipfile_upload.py)
VARIABLES
    max_retries,     \* the max_retries argument of _wait_and_click_start
    attempt,         \* the loop variable of _wait_and_click_start
    click_attempt,   \* the loop variable of _click_portal_start_upload
    events,          \* what the two functions did to the page, in order
    started          \* what _wait_and_click_start returned: "True", "False"

\* SimpleSearchFunctions.verify_sorting
VARIABLES
    mode_label,      \* the mode_label argument
    area,            \* the results area: "visible", "hidden", "raises"
    sort_cards,      \* title and date of the cards collect_result_cards finds
    ok               \* what verify_sorting returned: "True", "False"

scorer_vars == <<keyword, threshold, metadata_text, fz, result>>

verify_vars ==
    <<deep_check, config, cards, card_idx, metadata, dialog_result, total, matched,
      mismatch_details, match_percentage, returned, call, first_returned>>

sequence_vars == <<expected_files, modal, views, next_fails, seq_idx, results, all_matched>>

otp_vars == <<request_time, retries, imap, mailbox, polls, otp>>

upload_vars == <<max_retries, attempt, click_attempt, events, started>>

sorting_vars == <<mode_label, area, sort_cards, ok>>

vars == <<scorer_vars, pc, verify_vars, sequence_vars, otp_vars, upload_vars, sorting_vars>>

NotReturned == <<>>

\* a value that may be absent: None, an unset environment variable
Unset == [given |-> FALSE, value |-> 0]

Given(v) == [given |-> TRUE, value |-> v]

\* what extract_comprehensive_metadata returns, less image_src and video_src
Card(title, description, keywords, alt_text, aria_label, data_attributes, all_text) ==
    [title |-> title, description |-> description, keywords |-> keywords,
     alt_text |-> alt_text, aria_label |-> aria_label,
     data_attributes |-> data_attributes, all_text |-> all_text]

\* no card was read yet
NoMetadata == Card(<<>>, <<>>, <<>>, <<>>, <<>>, <<>>, <<>>)

\* the percentage before the summary computes it
NotComputed == [num |-> 0, den |-> 0]

\* verify_keyword_in_media_cards is not running
VerifyIdle ==
    /\ deep_check = FALSE
    /\ config = [caller |-> "none", supplied |-> Unset, configured |-> Unset]
    /\ cards = <<>>
    /\ card_idx = 0
    /\ metadata = NoMetadata
    /\ dialog_result = NotCalled
    /\ total = 0
    /\ matched = 0
    /\ mismatch_details = <<>>
    /\ match_percentage = NotComputed
    /\ returned = NotReturned
    /\ call = 1
    /\ first_returned = NotReturned

\* check_keyword_match is not running
ScorerIdle ==
    /\ keyword = <<>>
    /\ threshold = 0
    /\ metadata_text = <<>>
    /\ fz = FuzzRecord(0, 0, 0, 0, 0)
    /\ result = NotCalled

\* validate_sequence is not running
SequenceIdle ==
    /\ expected_files = <<>>
    /\ modal = "ok"
    /\ views = <<>>
    /\ next_fails = 0
    /\ seq_idx = 0
    /\ results = <<>>
    /\ all_matched = "none"

\* a call that has not returned, and the None a call returns
NoOtp == [returned |-> FALSE, code |-> <<>>]

\* get_latest_otp_after_request is not running
OtpIdle ==
    /\ request_time = [clock |-> 0, aware |-> FALSE]
    /\ retries = 0
    /\ imap = [connect |-> "ok", logout |-> "ok"]
    /\ mailbox = <<>>
    /\ polls = 0
    /\ otp = NoOtp

\* _wait_and_click_start is not running
UploadIdle ==
    /\ max_retries = Unset
    /\ attempt = 0
    /\ click_attempt = 0
    /\ events = <<>>
    /\ started = "none"

\* verify_sorting is not running
SortingIdle ==
    /\ mode_label = <<>>
    /\ area = "visible"
    /\ sort_cards = <<>>
    /\ ok = "none"

\* the keyword_clean of the call
keyword_clean == clean_keyword(keyword)

ScorerThresholds == {0, 70}

\* one set of library scores: the final chain is explored under SpecFuzzy
ScorerFuzz == {FuzzRecord(40, 30, 20, 45, 10)}

\* a call check_keyword_match(keyword, metadata_text, threshold) about to run
InitScorer ==
    /\ keyword \in Keywords
    /\ metadata_text \in Texts
    /\ threshold \in ScorerThresholds
    /\ fz \in ScorerFuzz
    /\ result = NotCalled
    /\ pc = "call"
    /\ VerifyIdle
    /\ SequenceIdle /\ OtpIdle /\ UploadIdle /\ SortingIdle

\* the call runs to its return
CallScorer ==
    /\ pc = "call"
    /\ result' = check_keyword_match(keyword, metadata_text, threshold, fz)
    /\ pc' = "returned"
    /\ UNCHANGED <<keyword, threshold, metadata_text, fz, verify_vars>>
    /\ UNCHANGED <<sequence_vars, otp_vars, upload_vars, sorting_vars>>

NextScorer == CallScorer

SpecScorer == InitScorer /\ [][NextScorer]_vars

\* The same call with few texts and keywords and with every combination of
\* library scores around the limits 50 and 60 of the final chain.
FuzzyKeywords == { <<"b">>, <<"a"," ","b">> }

FuzzyTexts == { <<"x">>, <<"x","b">> }

FuzzyThresholds == {0, 49, 70, 150}

ScoreValues == {0, 49, 50, 59, 60, 100}

FuzzGrid ==
    {FuzzRecord(p, ts, tset, wr, r) :
        p \in ScoreValues, ts \in ScoreValues, tset \in ScoreValues,
        wr \in ScoreValues, r \in ScoreValues}

InitFuzzy ==
    /\ keyword \in FuzzyKeywords
    /\ metadata_text \in FuzzyTexts
    /\ threshold \in FuzzyThresholds
    /\ fz \in FuzzGrid
    /\ result = NotCalled
    /\ pc = "call"
    /\ VerifyIdle
    /\ SequenceIdle /\ OtpIdle /\ UploadIdle /\ SortingIdle

SpecFuzzy == InitFuzzy /\ [][NextScorer]_vars

(***************************************************************************)
(* The threshold a caller passes                                           *)
(***************************************************************************)
\* the default of ELASTIC_SEARCH_FUZZY_THRESHOLD, of FUZZY_THRESHOLD and of
\* the threshold parameters
DefaultThreshold == 70

\* _get_int(key, default): the integer in the environment, the default when
\* the variable is not set or is not an integer
get_int(env, default) == IF env.given THEN env.value ELSE default

ELASTIC_SEARCH_FUZZY_THRESHOLD(env) == get_int(env, DefaultThreshold)

\* ELASTIC_SEARCH_FUZZY_THRESHOLD or 70
FUZZY_THRESHOLD(env) ==
    IF ELASTIC_SEARCH_FUZZY_THRESHOLD(env) # 0
    THEN ELASTIC_SEARCH_FUZZY_THRESHOLD(env)
    ELSE DefaultThreshold

\* ElasticSearchAutomation.run(keyword, threshold): the threshold it passes
run_threshold(supplied, env) ==
    IF supplied.given THEN supplied.value ELSE FUZZY_THRESHOLD(env)

\* the threshold verify_keyword_in_media_cards receives: from run, or from
\* validate_view_and_return_to_grid through verify_keyword_in_results(keyword)
passed_threshold(cfg) ==
    IF cfg.caller = "run"
    THEN run_threshold(cfg.supplied, cfg.configured)
    ELSE DefaultThreshold

Setting(caller, supplied, configured) ==
    [caller |-> caller, supplied |-> supplied, configured |-> configured]

\* nothing supplied or configured; 0 configured; 0 supplied; a threshold below
\* 0 supplied; a threshold above 100 configured; the view validation with
\* a threshold configured
ThresholdSettings ==
    { Setting("run", Unset, Unset),
      Setting("run", Unset, Given(0)),
      Setting("run", Given(0), Given(150)),
      Setting("run", Given(0 - 5), Unset),
      Setting("run", Unset, Given(150)),
      Setting("validate_view", Unset, Given(40)) }

(***************************************************************************)
(* verify_keyword_in_media_cards                                           *)
(***************************************************************************)
\* most cards on a page of any cards
MaxCards == 2

\* cards on the long page
LargeBatch == 200

\* visible_cards = [...][:150]
CardCap == 150

Min2(a, b) == IF a <= b THEN a ELSE b

\* s[:n]
Prefix(s, n) == SubSeq(s, 1, Min2(n, Len(s)))

\* [c for c in cards if c.is_visible()][:150]
visible_cards == Prefix(SelectSeq(cards, LAMBDA c : c.visible), CardCap)

visible_count == Len(visible_cards)

NoTitle == <<"(","n","o"," ","t","i","t","l","e",")">>

EmptyCardTitle == <<"(","e","m","p","t","y"," ","c","a","r","d",")">>

UnreadableTitle == <<"(","u","n","r","e","a","d","a","b","l","e",")">>

\* the metadata a card may have: no text at all; a title and text; a
\* description only; a title that is a skip word; alt text only; an aria
\* label only; keywords only
Cards ==
    { Card(<<>>, <<>>, <<>>, <<>>, <<>>, <<>>, <<>>),
      Card(<<"a">>, <<>>, <<>>, <<>>, <<>>, <<>>, <<"a"," ","x">>),
      Card(<<>>, <<"B">>, <<>>, <<>>, <<>>, <<>>, <<>>),
      Card(<<"m","p","4">>, <<>>, <<>>, <<>>, <<>>, <<>>, <<>>),
      Card(<<>>, <<>>, <<>>, <<"x"," ","b">>, <<>>, <<>>, <<>>),
      Card(<<>>, <<>>, <<>>, <<>>, <<"x">>, <<>>, <<>>),
      Card(<<>>, <<>>, <<"x">>, <<>>, <<>>, <<>>, <<>>) }

\* library scores that match at no threshold above 30, and that always match
VerifyFuzz == {FuzzRecord(20, 10, 10, 30, 5), FuzzRecord(55, 20, 20, 60, 30)}

LowFuzz == FuzzRecord(20, 10, 10, 30, 5)

HighFuzz == FuzzRecord(55, 20, 20, 60, 30)

\* the text of the details dialog; <<>>: no button, no dialog, no text or an
\* exception inside the deep check
DialogTexts == { <<>>, <<"b">>, <<"x">> }

\* A card of the page: whether it is visible, what extraction reads from it,
\* whether reading ("extract") or scoring ("score") it raises, the library
\* scores for its text, the text of its details dialog and the scores for it.
PageCard(visible, md, raises, f, dialog_text, fd) ==
    [visible |-> visible, metadata |-> md, raises |-> raises, f |-> f,
     dialog_text |-> dialog_text, fd |-> fd]

EmptyCard == PageCard(TRUE, NoMetadata, "none", LowFuzz, <<>>, LowFuzz)

SkipWordCard ==
    PageCard(TRUE, Card(<<"m","p","4">>, <<>>, <<>>, <<>>, <<>>, <<>>, <<>>),
             "none", LowFuzz, <<>>, LowFuzz)

MismatchCard ==
    PageCard(TRUE, Card(<<>>, <<>>, <<>>, <<>>, <<"x">>, <<>>, <<>>),
             "none", LowFuzz, <<"x">>, LowFuzz)

MatchCard ==
    PageCard(TRUE, Card(<<>>, <<>>, <<>>, <<"x"," ","b">>, <<>>, <<>>, <<>>),
             "none", LowFuzz, <<>>, LowFuzz)

PageCards ==
    { EmptyCard, SkipWordCard, MismatchCard, MatchCard,
      PageCard(TRUE, Card(<<"a">>, <<>>, <<>>, <<>>, <<>>, <<>>, <<"a"," ","x">>),
               "none", HighFuzz, <<>>, LowFuzz),
      PageCard(TRUE, Card(<<>>, <<"B">>, <<>>, <<>>, <<>>, <<>>, <<>>),
               "score", LowFuzz, <<>>, LowFuzz),
      PageCard(TRUE, Card(<<>>, <<>>, <<"x">>, <<>>, <<>>, <<>>, <<>>),
               "none", LowFuzz, <<"b">>, LowFuzz),
      PageCard(TRUE, NoMetadata, "extract", LowFuzz, <<>>, LowFuzz),
      PageCard(FALSE, NoMetadata, "none", LowFuzz, <<>>, LowFuzz) }

RECURSIVE PagesOfLen(_)
PagesOfLen(n) ==
    IF n = 0 THEN {<<>>}
    ELSE {p \o <<c>> : p \in PagesOfLen(n - 1), c \in PageCards}

\* the long page: cards that do not match and cards that match, in turn
LargePage == [i \in 1..LargeBatch |-> IF i % 2 = 1 THEN MismatchCard ELSE MatchCard]

Pages == UNION {PagesOfLen(n) : n \in 0..MaxCards} \cup {LargePage}

\* " ".join([f for f in all_metadata_fields if f]).strip()
combined_metadata(md) ==
    strip(join(SelectSeq(<<md.title, md.description, md.keywords, md.alt_text,
                           md.aria_label, md.data_attributes, md.all_text>>,
                         LAMBDA f : f # <<>>)))

\* the mutant of display_title: the alt text is left out
display_title_without_alt(md) ==
    IF md.title # <<>> THEN md.title
    ELSE IF md.description # <<>> THEN md.description
    ELSE IF md.aria_label # <<>> THEN md.aria_label
    ELSE NoTitle

\* metadata['title'] or metadata['description'] or metadata['alt_text']
\*     or metadata['aria_label'] or "(no title)"
display_title(md) ==
    IF md.title # <<>> THEN md.title
    ELSE IF md.description # <<>> THEN md.description
    ELSE IF md.alt_text # <<>> THEN md.alt_text
    ELSE IF md.aria_label # <<>> THEN md.aria_label
    ELSE NoTitle

\* the mutant of EmptyEntry: an empty card is reported as a reading error
EmptyEntry_as_error(idx) ==
    [card_number |-> idx, reason |-> "Error reading card", title |-> UnreadableTitle]

\* the three kinds of mismatch entry
EmptyEntry(idx) ==
    [card_number |-> idx, reason |-> "No metadata found", title |-> EmptyCardTitle]

ScoredEntry(idx, md, combined, r, thr) ==
    [card_number |-> idx, title |-> display_title(md), best_score |-> r.best_score,
     threshold |-> thr, method |-> r.method, metadata_preview |-> Prefix(combined, 200)]

ErrorEntry(idx) ==
    [card_number |-> idx, reason |-> "Error reading card", title |-> UnreadableTitle]

\* the mutant of WithoutCard: the entry is kept
WithoutCard_keeping(details, idx) == details

\* [m for m in mismatch_details if m.get('card_number') != card_idx]
WithoutCard(details, idx) == SelectSeq(details, LAMBDA m : m.card_number # idx)

\* the mutant of percentage: the unmatched share
percentage_unmatched(m, t) ==
    IF t > 0 THEN [num |-> (t - m) * 100, den |-> t] ELSE Score(0)

\* (matched / total * 100) if total > 0 else 0
percentage(m, t) ==
    IF t > 0 THEN [num |-> m * 100, den |-> t] ELSE Score(0)

VerifyKeywords == { <<>>, <<" ">>, <<"b">>, <<"a"," ","b">> }

\* A caller is about to call
\* verify_keyword_in_media_cards(keyword, area_xpath, threshold, deep_check)
\* on a page that shows `cards`.
Init ==
    /\ keyword \in VerifyKeywords
    /\ config \in ThresholdSettings
    /\ threshold = passed_threshold(config)
    /\ deep_check \in BOOLEAN
    /\ cards \in Pages
    /\ metadata_text = <<>>
    /\ fz = FuzzRecord(0, 0, 0, 0, 0)
    /\ result = NotCalled
    /\ pc = "start"
    /\ SequenceIdle /\ OtpIdle /\ UploadIdle /\ SortingIdle
    /\ card_idx = 0
    /\ metadata = NoMetadata
    /\ dialog_result = NotCalled
    /\ total = 0
    /\ matched = 0
    /\ mismatch_details = <<>>
    /\ match_percentage = NotComputed
    /\ returned = NotReturned
    /\ call = 1
    /\ first_returned = NotReturned

\* the mutant of fresh_count: the count of the call before is kept
kept_count(previous) == previous

\* matched = 0, total = 0: whatever an earlier call counted
fresh_count(previous) == 0

\* The search for the results area and its cards.  Without cards the function
\* returns (0, 0, []) and the caller computes the percentage of that; with
\* cards it sets matched = 0, total = 0, mismatch_details = [] and starts the
\* loop.
CollectCards ==
    /\ pc = "start"
    /\ IF cards = <<>>
       THEN /\ pc' = "done"
            /\ returned' = <<0, 0, <<>>>>
            /\ match_percentage' = percentage(0, 0)
            /\ UNCHANGED <<total, matched, mismatch_details, card_idx>>
       ELSE /\ pc' = "loop"
            /\ matched' = fresh_count(matched)
            /\ total' = fresh_count(total)
            /\ mismatch_details' = <<>>
            /\ card_idx' = 0
            /\ UNCHANGED <<returned, match_percentage>>
    /\ UNCHANGED <<scorer_vars, deep_check, config, cards, metadata, dialog_result,
                   call, first_returned>>
    /\ UNCHANGED <<sequence_vars, otp_vars, upload_vars, sorting_vars>>

\* the mutant of next_card: the loop leaves a card out
next_card_skipping(idx) == idx + 2

\* enumerate(visible_cards, 1): the card after card idx
next_card(idx) == idx + 1

\* the mutant of card_raises: no exception is caught
card_raises_never(c) == "none"

\* whether reading or scoring card c raises inside the try block
card_raises(c) == c.raises

\* The body of the loop for card idx, c of the page, with combined text
\* `combined`.  r: check_keyword_match for the card.  deep: the details dialog
\* is checked; rd: check_keyword_match for its text.  scored: the mismatch
\* entry of the card.
card_step(idx, c, combined, r, deep, rd, scored) ==
    /\ card_idx' = idx
    /\ total' = total + 1
    /\ IF card_raises(c) = "extract"
       THEN /\ mismatch_details' = Append(mismatch_details, ErrorEntry(idx))
            /\ UNCHANGED <<matched, metadata, metadata_text, fz, result, dialog_result>>
       ELSE IF combined = <<>>
       THEN /\ mismatch_details' = Append(mismatch_details, EmptyEntry(idx))
            /\ metadata' = c.metadata
            /\ UNCHANGED <<matched, metadata_text, fz, result, dialog_result>>
       ELSE IF card_raises(c) = "score"
       THEN /\ mismatch_details' = Append(mismatch_details, ErrorEntry(idx))
            /\ metadata' = c.metadata
            /\ metadata_text' = combined
            /\ fz' = c.f
            /\ UNCHANGED <<matched, result, dialog_result>>
       ELSE /\ metadata' = c.metadata
            /\ metadata_text' = combined
            /\ fz' = c.f
            /\ result' = r
            /\ dialog_result' = IF deep THEN rd ELSE NotCalled
            /\ IF r.is_match
               THEN /\ matched' = matched + 1
                    /\ UNCHANGED mismatch_details
               ELSE IF deep /\ rd.is_match
               THEN /\ matched' = matched + 1
                    /\ mismatch_details' =
                           WithoutCard(Append(mismatch_details, scored), idx)
               ELSE /\ matched' = matched
                    /\ mismatch_details' = Append(mismatch_details, scored)

scored_step(idx, c, combined, r) ==
    card_step(idx, c, combined, r,
              ~r.is_match /\ deep_check /\ c.dialog_text # <<>>,
              check_keyword_match(keyword, c.dialog_text, threshold, c.fd),
              ScoredEntry(idx, c.metadata, combined, r, threshold))

read_step(idx, c, combined) ==
    scored_step(idx, c, combined,
                check_keyword_match(keyword, combined, threshold, c.f))

\* one pass of the loop over visible_cards
ProcessCard ==
    /\ pc = "loop"
    /\ next_card(card_idx) <= visible_count
    /\ read_step(next_card(card_idx), visible_cards[next_card(card_idx)],
                 combined_metadata(visible_cards[next_card(card_idx)].metadata))
    /\ UNCHANGED <<keyword, threshold, deep_check, config, cards, pc,
                   match_percentage, returned, call, first_returned>>
    /\ UNCHANGED <<sequence_vars, otp_vars, upload_vars, sorting_vars>>

\* the summary after the loop and the return
Finish ==
    /\ pc = "loop"
    /\ next_card(card_idx) > visible_count
    /\ pc' = "done"
    /\ match_percentage' = percentage(matched, total)
    /\ returned' = <<matched, total, mismatch_details>>
    /\ UNCHANGED <<scorer_vars, deep_check, config, cards, card_idx, metadata,
                   dialog_result, total, matched, mismatch_details, call,
                   first_returned>>
    /\ UNCHANGED <<sequence_vars, otp_vars, upload_vars, sorting_vars>>

\* the caller calls again with the same keyword and threshold on the same page
CallAgain ==
    /\ pc = "done"
    /\ call = 1
    /\ call' = 2
    /\ first_returned' = returned
    /\ returned' = NotReturned
    /\ pc' = "start"
    /\ UNCHANGED <<scorer_vars, deep_check, config, cards, card_idx, metadata,
                   dialog_result, total, matched, mismatch_details, match_percentage>>
    /\ UNCHANGED <<sequence_vars, otp_vars, upload_vars, sorting_vars>>

Next ==
    \/ CollectCards
    \/ ProcessCard
    \/ Finish
    \/ CallAgain

Spec == Init /\ [][Next]_vars

(***************************************************************************)
(* Properties of check_keyword_match (SpecScorer)                          *)
(***************************************************************************)
\* the words of the keyword, and how many of them occur in the cleaned text
QueryWords == split(keyword_clean)

WordsPresent ==
    Cardinality({i \in DOMAIN QueryWords : Contains(QueryWords[i], result.metadata_clean)})

IsExactResult ==
    /\ result.is_match
    /\ result.best_score = Score(100)
    /\ result.method = "exact_match"
    /\ result.evaluated = {"exact_match"}

C2_EmptyTextNeverMatches ==
    (pc = "returned" /\ keyword # <<>> /\ result.metadata_clean = <<>>)
        => /\ ~result.is_match
           /\ result.best_score = Score(0)
           /\ result.method = "None"
           /\ result.evaluated = {}

\* a text of noise only, empty once normalized, was scored for a real query
C2_Witness ==
    /\ pc = "returned"
    /\ keyword_clean # <<>>
    /\ metadata_text # <<>>
    /\ result.metadata_clean = <<>>

\* C6: a query of several words that is not itself a substring of the text,
\* every word of which occurs in the normalized text, is scored
\* (true, 95, all-words match), whatever the threshold.
C6_AllWordsMatch ==
    (/\ pc = "returned"
     /\ Len(QueryWords) > 1
     /\ ~Contains(keyword_clean, result.metadata_clean)
     /\ WordsPresent = Len(QueryWords))
        => /\ result.is_match
           /\ result.best_score = Score(95)
           /\ result.method = "all_words_match"

\* the words of a query were all found, in another order than the query's
C6_Witness ==
    /\ pc = "returned"
    /\ Len(QueryWords) > 1
    /\ ~Contains(keyword_clean, result.metadata_clean)
    /\ WordsPresent = Len(QueryWords)
    /\ threshold = 70

\* C7: at the words step (text not empty, no exact match), a query of several
\* words that are not all present is a partial-words match, with the
\* percentage of words present as its score, exactly when at least 70% of
\* its words are present; below that the fuzzy strategies decide; a query
\* of one word never gets the all-words or partial-words method.
C7_PartialWordsMatch ==
    (/\ pc = "returned"
     /\ result.metadata_clean # <<>>
     /\ ~Contains(keyword_clean, result.metadata_clean))
        => /\ (/\ Len(QueryWords) > 1
                /\ WordsPresent < Len(QueryWords)
                /\ WordsPresent * 100 >= 70 * Len(QueryWords))
                   => /\ result.is_match
                      /\ result.method = "partial_words_match"
                      /\ result.best_score.num * Len(QueryWords)
                            = WordsPresent * 100 * result.best_score.den
           /\ (/\ Len(QueryWords) > 1
                /\ WordsPresent * 100 < 70 * Len(QueryWords))
                   => /\ result.method \in FuzzyStrategies
                      /\ FuzzyStrategies \subseteq result.evaluated
                      /\ result.best_score = Score(best_score(fz))
           /\ Len(QueryWords) <= 1
                   => result.method \notin {"all_words_match", "partial_words_match"}

\* a query with some of its words missing was scored a partial-words match
C7_Witness ==
    /\ pc = "returned"
    /\ Len(QueryWords) > 1
    /\ WordsPresent < Len(QueryWords)
    /\ result.method = "partial_words_match"

\* C8: if the lowercased query occurs in the lowercased metadata before
\* noise removal, it still occurs in the normalized text after it.
C8_NoiseRemovalKeepsQuery ==
    (pc = "returned" /\ Contains(keyword_clean, lower(metadata_text)))
        => Contains(keyword_clean, result.metadata_clean)

(***************************************************************************)
(* Properties of the fuzzy step of check_keyword_match (SpecFuzzy)         *)
(***************************************************************************)
\* the call returned from the fuzzy step
FuzzyReached == pc = "returned" /\ FuzzyStrategies \subseteq result.evaluated

\* the five scores in the order partial, token sort, token set, weighted, plain
FiveScores == <<fz.partial, fz.token_sort, fz.token_set, fz.wr, fz.ratio>>

FiveNames == <<"partial_ratio", "token_sort_ratio", "token_set_ratio", "WRatio", "ratio">>

MaxOfFive == CHOOSE m \in Range(FiveScores) : \A x \in Range(FiveScores) : x <= m

FirstAtMax == CHOOSE i \in 1..5 : FiveScores[i] = MaxOfFive /\ \A j \in 1..(i - 1) : FiveScores[j] # MaxOfFive

RuleA == fz.partial >= 50

RuleB == fz.token_sort >= 60 \/ fz.token_set >= 60

RuleC == MaxOfFive >= threshold

RuleD == fz.wr >= 60

RuleE == MaxOfFive >= 50

\* C3: from the fuzzy step, is_match is true exactly when one of the five
\* rules holds, and the rule that decides is the first that holds in the
\* order partial >= 50; token sort or token set >= 60; best >= threshold;
\* weighted >= 60; best >= 50.
C3_MatchDecision ==
    FuzzyReached =>
        /\ result.is_match = (RuleA \/ RuleB \/ RuleC \/ RuleD \/ RuleE)
        /\ result.rule = "partial" <=> RuleA
        /\ result.rule = "token" <=> ~RuleA /\ RuleB
        /\ result.rule = "threshold" <=> ~RuleA /\ ~RuleB /\ RuleC
        /\ result.rule = "wratio" <=> ~RuleA /\ ~RuleB /\ ~RuleC /\ RuleD
        /\ result.rule = "lenient" <=> ~RuleA /\ ~RuleB /\ ~RuleC /\ ~RuleD /\ RuleE
        /\ result.rule = "none" <=> ~result.is_match

\* the comparison with the threshold decided a match the two rules before it
\* and the two after it would not have given
C3_Witness ==
    /\ FuzzyReached
    /\ result.is_match
    /\ ~RuleA /\ ~RuleB /\ RuleC /\ ~RuleD /\ ~RuleE

\* C4: from the fuzzy step, the score returned is the maximum of the five
\* scores and the method is the first of partial, token sort, token set,
\* weighted, plain whose score equals it.
C4_BestScoreAndMethod ==
    FuzzyReached =>
        /\ result.best_score = Score(MaxOfFive)
        /\ result.method = FiveNames[FirstAtMax]

\* two strategies tie for the best score and neither is the first of the five
C4_Witness ==
    /\ FuzzyReached
    /\ fz.partial < MaxOfFive
    /\ fz.token_sort = MaxOfFive
    /\ fz.wr = MaxOfFive
    /\ result.method = "token_sort_ratio"

\* is_match of the same call made with threshold t
IsMatchAt(t) == check_keyword_match(keyword, metadata_text, t, fz).is_match

\* C5 as stated: when partial < 50, token sort < 60 and token set < 60, a
\* threshold above the best score gives no match and a threshold at or
\* below it gives a match.
C5_ThresholdSensitivityAsStated ==
    (FuzzyReached /\ fz.partial < 50 /\ fz.token_sort < 60 /\ fz.token_set < 60)
        => \A t \in FuzzyThresholds : IsMatchAt(t) <=> t <= MaxOfFive

\* C5 amended: when partial < 50, token sort < 60, token set < 60 and the
\* best score is below 50 (so that neither weighted >= 60 nor best >= 50
\* applies), a threshold above the best score gives no match and a threshold
\* at or below it gives a match.
C5_ThresholdSensitivity ==
    (/\ FuzzyReached
     /\ fz.partial < 50 /\ fz.token_sort < 60 /\ fz.token_set < 60
     /\ MaxOfFive < 50)
        => \A t \in FuzzyThresholds : IsMatchAt(t) <=> t <= MaxOfFive

\* a pair that does not match at this threshold and matches at a lower one
C5_Witness ==
    /\ FuzzyReached
    /\ MaxOfFive < 50
    /\ threshold > MaxOfFive
    /\ ~result.is_match
    /\ \E t \in FuzzyThresholds : t <= MaxOfFive /\ IsMatchAt(t)

(***************************************************************************)
(* Properties of verify_keyword_in_media_cards (Spec)                      *)
(***************************************************************************)
\* C9: a malformed (empty or whitespace-only) query fails fast: verification
\* called with such a query counts no record as matched (and reports an
\* invalid-query condition; the function's only report is the tuple
\* (matched, total, mismatch_details)).
C9_EmptyQueryCountsNoMatch ==
    (pc = "done" /\ keyword_clean = <<>>) => returned[1] = 0

\* the threshold brought into [0, 100]
Clamp(t) == IF t < 0 THEN 0 ELSE IF t > 100 THEN 100 ELSE t

\* C10: an out-of-range threshold is clamped to [0,100]: every match decision
\* and the threshold recorded in each mismatch entry equal those obtained with
\* the threshold clamped to [0,100].
C10_ThresholdClamped ==
    /\ result # NotCalled =>
           result.is_match =
               check_keyword_match(keyword, metadata_text, Clamp(threshold), fz).is_match
    /\ \A i \in DOMAIN mismatch_details :
           "threshold" \in DOMAIN mismatch_details[i] =>
               mismatch_details[i].threshold = Clamp(threshold)

\* the visible cards of the page before the cap, the card the loop is at and
\* whether it was scored
VisibleOnPage == SelectSeq(cards, LAMBDA c : c.visible)

InLoop == pc \in {"loop", "done"} /\ card_idx >= 1

CurrentCard == visible_cards[card_idx]

EntriesOf(idx) ==
    {i \in DOMAIN mismatch_details : mismatch_details[i].card_number = idx}

IsScoredEntry(m) == "best_score" \in DOMAIN m

\* C11: a batch of one record whose metadata fields are all empty yields
\* total = 1, matched = 0 and exactly one mismatch entry, of reason
\* 'No metadata found'; the scorer is not called for the record.
C11_UnreadableAccounting ==
    (/\ pc = "done"
     /\ Len(visible_cards) = 1
     /\ visible_cards[1].metadata = NoMetadata
     /\ visible_cards[1].raises # "extract")
        => /\ returned[1] = 0
           /\ returned[2] = 1
           /\ Len(returned[3]) = 1
           /\ returned[3][1].card_number = 1
           /\ returned[3][1].reason = "No metadata found"
           /\ ~IsScoredEntry(returned[3][1])
           /\ result = NotCalled

C11_Witness ==
    /\ pc = "done"
    /\ visible_cards = <<EmptyCard>>
    /\ returned = <<0, 1, <<EmptyEntry(1)>>>>

\* C12: a record whose normalized text is empty, also one whose fields hold
\* only noise tokens, gets a mismatch entry of reason 'No metadata found' and
\* no scored mismatch entry.
C12_NoiseOnlyIsUnreadable ==
    (/\ InLoop
     /\ CurrentCard.raises = "none"
     /\ clean_text(combined_metadata(CurrentCard.metadata)) = <<>>)
        => /\ EntriesOf(card_idx) # {}
           /\ \A i \in EntriesOf(card_idx) :
                  /\ ~IsScoredEntry(mismatch_details[i])
                  /\ mismatch_details[i].reason = "No metadata found"

\* C13: the loop inspects the first min(n, 150) visible records in their
\* order, each once: total never exceeds 150, every pass takes the next
\* record, and the call returns total = min(n, 150).
C13_BatchCap ==
    /\ [](/\ total <= CardCap
          /\ InLoop => total = card_idx
          /\ pc = "done" => returned[2] = Min2(Len(VisibleOnPage), CardCap))
    /\ [][card_idx' # card_idx =>
            \/ card_idx' = 0
            \/ /\ card_idx' = card_idx + 1
               /\ card_idx' <= Min2(Len(VisibleOnPage), CardCap)
               /\ total' = total + 1
               /\ VisibleOnPage[card_idx'].raises # "extract"
                      => metadata' = VisibleOnPage[card_idx'].metadata]_vars

C13_Witness ==
    /\ pc = "done"
    /\ Len(cards) = LargeBatch
    /\ returned[2] = CardCap
    /\ metadata = MatchCard.metadata

\* which cards of the page raise when they are read or scored
Raising(c) ==
    \/ c.raises = "extract"
    \/ c.raises = "score" /\ combined_metadata(c.metadata) # <<>>

\* C14: a record whose extraction or scoring raises is recorded as
\* unreadable and not counted as matched, the records after it are still
\* inspected, and every call returns, with total = the records inspected.
C14_PartialFailureTolerance ==
    /\ [](InLoop =>
            \A k \in 1..card_idx :
                Raising(visible_cards[k]) =>
                    \E i \in DOMAIN mismatch_details :
                        mismatch_details[i] = ErrorEntry(k))
    /\ [](pc = "done" =>
            /\ returned[2] = visible_count
            /\ returned[1] + Len(returned[3]) = returned[2])
    /\ (pc = "start" ~> pc = "done")

C14_Witness ==
    /\ pc = "done"
    /\ visible_count = 2
    /\ Raising(visible_cards[1])
    /\ visible_cards[2] = MatchCard
    /\ returned[1] = 1
    /\ returned[3] = <<ErrorEntry(1)>>

\* C15: the percentage reported is matched / total * 100 when total > 0 and
\* 0 when total = 0, and lies in [0, 100].
C15_MatchPercentage ==
    pc = "done" =>
        /\ match_percentage.den > 0
        /\ IF returned[2] > 0
           THEN match_percentage.num * returned[2]
                    = returned[1] * 100 * match_percentage.den
           ELSE match_percentage.num = 0
        /\ 0 <= match_percentage.num
        /\ match_percentage.num <= 100 * match_percentage.den

C15_Witness ==
    /\ pc = "done"
    /\ returned[1] = 1
    /\ returned[2] = 2
    /\ match_percentage.num * 2 = 100 * match_percentage.den

\* the first text of fields that is not empty
RECURSIVE FirstNonEmpty(_)
FirstNonEmpty(fields) ==
    IF Len(fields) = 1 \/ Head(fields) # <<>> THEN Head(fields)
    ELSE FirstNonEmpty(Tail(fields))

\* the loop steps to a card that is scored
ScoresCard ==
    /\ pc = "loop"
    /\ card_idx' = card_idx + 1
    /\ visible_cards[card_idx'].raises = "none"
    /\ combined_metadata(visible_cards[card_idx'].metadata) # <<>>

\* C16: for a scored record that does not match, one mismatch entry is
\* appended, carrying the record's index, its score, the threshold used and
\* as title the first non-empty of title, description, alt text, aria label,
\* else '(no title)'; for a record that matches, matched grows by one and no
\* entry is added.
C16_ScoredRecordAccounting ==
    [][ScoresCard =>
          IF result'.is_match \/ dialog_result'.is_match
          THEN /\ matched' = matched + 1
               /\ mismatch_details' = mismatch_details
          ELSE /\ matched' = matched
               /\ Len(mismatch_details') = Len(mismatch_details) + 1
               /\ SubSeq(mismatch_details', 1, Len(mismatch_details)) = mismatch_details
               /\ LET m == mismatch_details'[Len(mismatch_details')]
                      md == visible_cards[card_idx'].metadata
                  IN  /\ m.card_number = card_idx'
                      /\ m.best_score = result'.best_score
                      /\ m.threshold = threshold
                      /\ m.title = FirstNonEmpty(<<md.title, md.description,
                                                   md.alt_text, md.aria_label, NoTitle>>)]_vars

C16_Witness ==
    /\ pc = "done"
    /\ call = 1
    /\ returned[1] = 1
    /\ Len(returned[3]) = 1
    /\ IsScoredEntry(returned[3][1])
    /\ returned[3][1].card_number = 2
    /\ returned[3][1].title = <<"x"," ","b">>

\* C17: the mismatch list returned holds at most the first 10 mismatches, in
\* strictly increasing record index.
C17_MismatchListTruncated ==
    pc = "done" =>
        /\ Len(returned[3]) <= 10
        /\ \A i \in 1..(Len(returned[3]) - 1) :
               returned[3][i].card_number < returned[3][i + 1].card_number

\* C18: a second call with the same keyword, the same records and the same
\* threshold returns what the first call returned.
C18_Idempotence ==
    (pc = "done" /\ call = 2) => returned = first_returned

C18_Witness ==
    /\ pc = "done"
    /\ call = 2
    /\ returned[1] > 0
    /\ returned[3] # <<>>
    /\ returned = first_returned

\* the threshold the claim expects the scorer to use: the one supplied, else
\* the one configured, else the default
ExpectedThreshold ==
    IF config.supplied.given THEN config.supplied.value
    ELSE IF config.configured.given THEN config.configured.value
    ELSE DefaultThreshold

\* C20: every threshold in [0,100] that the caller supplies or that is
\* configured, 0 included, is the threshold the scorer uses; the default 70
\* is used only when none is supplied or configured.
C20_ThresholdAsSupplied ==
    (InLoop /\ metadata_text # <<>> /\ ExpectedThreshold \in 0..100)
        => threshold = ExpectedThreshold

(***************************************************************************)
(* Properties of clean_text (SpecScorer)                                   *)
(***************************************************************************)
\* the noise words the description of the normalized text lists
ListedNoiseWords ==
    { <<"m","p","4">>, <<"m","k","v">>, <<"a","v","i">>, <<"m","p","3">>,
      <<"w","a","v">>, <<"p","d","f">>, <<"d","o","c">>, <<"d","o","c","x">>,
      <<"x","l","s">>, <<"x","l","s","x">>, <<"p","p","t">>, <<"p","p","t","x">>,
      <<"s","e","e"," ","d","e","t","a","i","l","s">>, <<"o","t","h","e","r">> }

HasMatch(pat, s) == \E i \in 1..Len(s) : MatchLenAt(pat, s, i) > 0

\* C19: the normalized text holds no whole-word occurrence of a listed noise
\* word, no duration and no size, and its whitespace is collapsed to single
\* blanks with none at either end.
C19_NoNoiseAfterNormalization ==
    (pc = "returned" /\ metadata_text # <<>>) =>
        /\ \A w \in ListedNoiseWords : ~HasMatch(WordPattern(w), result.metadata_clean)
        /\ ~HasMatch(DurationPattern, result.metadata_clean)
        /\ ~HasMatch(SizePattern, result.metadata_clean)
        /\ result.metadata_clean = NormalizeWhitespace(result.metadata_clean)

(***************************************************************************)
(* The loop runs to its end                                                *)
(***************************************************************************)
\* The same calls for one keyword and the default threshold.
LiveKeywords == { <<"b">> }

LiveSettings == { Setting("run", Unset, Unset) }

InitLive ==
    /\ keyword \in LiveKeywords
    /\ config \in LiveSettings
    /\ threshold = passed_threshold(config)
    /\ deep_check \in BOOLEAN
    /\ cards \in Pages
    /\ metadata_text = <<>>
    /\ fz = FuzzRecord(0, 0, 0, 0, 0)
    /\ result = NotCalled
    /\ pc = "start"
    /\ SequenceIdle /\ OtpIdle /\ UploadIdle /\ SortingIdle
    /\ card_idx = 0
    /\ metadata = NoMetadata
    /\ dialog_result = NotCalled
    /\ total = 0
    /\ matched = 0
    /\ mismatch_details = <<>>
    /\ match_percentage = NotComputed
    /\ returned = NotReturned
    /\ call = 1
    /\ first_returned = NotReturned

\* when a pass of the loop can be taken: ENABLED <<ProcessCard>>_vars
CanProcess == pc = "loop" /\ next_card(card_idx) <= visible_count

\* The function runs in one thread and every step it can take it takes: weak
\* fairness of the three steps of a call, that of ProcessCard with its
\* enabling condition written out.
SpecLive ==
    /\ InitLive
    /\ [][Next]_vars
    /\ WF_vars(CollectCards)
    /\ WF_vars(Finish)
    /\ ([]<>(~CanProcess) \/ []<><<ProcessCard>>_vars)

(***************************************************************************)
(* More properties of check_keyword_match                                  *)
(***************************************************************************)
\* the methods a result may name
MethodNames ==
    {"exact_match", "all_words_match", "partial_words_match"} \cup FuzzyStrategies

\* C21: every result of the scorer has a score within 0..100 and a method of
\* the fixed set; the method is None exactly when the text or the normalized
\* text is empty, and then the score is 0.
C21_ResultWellFormed ==
    pc = "returned" =>
        /\ result.is_match \in BOOLEAN
        /\ 0 <= result.best_score.num
        /\ result.best_score.num <= 100 * result.best_score.den
        /\ result.method \in MethodNames \cup {"None"}
        /\ result.method = "None" <=> clean_text(metadata_text) = <<>>
        /\ result.method = "None" => result.best_score = Score(0) /\ ~result.is_match

C21_Witness ==
    /\ pc = "returned"
    /\ metadata_text # <<>>
    /\ keyword = <<>>
    /\ result.method = "None"
    /\ result.best_score = Score(0)

Min50(t) == IF t < 50 THEN t ELSE 50

\* C22: in the fuzzy step is_match is true exactly when the best score is at
\* least min(50, threshold); so for thresholds of 50 or more the decision is
\* that of threshold 50, and a result that is no match has a score below 50.
C22_LadderCollapses ==
    FuzzyReached =>
        /\ result.is_match <=> MaxOfFive >= Min50(threshold)
        /\ threshold >= 50 => result.is_match = IsMatchAt(50)
        /\ ~result.is_match => result.best_score.num < 50

C22_Witness ==
    /\ FuzzyReached
    /\ threshold = 70
    /\ fz.partial = 49
    /\ fz.wr = 50
    /\ MaxOfFive = 50
    /\ result.is_match
    /\ result.rule = "lenient"

\* C23: partial_words_match is returned only for keywords of four words or
\* more, with a score of at least 70 and below 100; a keyword of two or three
\* words of which some but not all occur in the text goes on to the fuzzy
\* strategies.
C23_PartialWordsNeedFourWords ==
    pc = "returned" =>
        /\ result.method = "partial_words_match" =>
               /\ Len(QueryWords) >= 4
               /\ result.best_score.num >= 70 * result.best_score.den
               /\ result.best_score.num < 100 * result.best_score.den
        /\ (/\ Len(QueryWords) \in {2, 3}
            /\ WordsPresent > 0
            /\ WordsPresent < Len(QueryWords)) =>
               /\ WordsPresent * 100 < 70 * Len(QueryWords)
               /\ FuzzyStrategies \subseteq result.evaluated

C23_Witness ==
    /\ pc = "returned"
    /\ Len(QueryWords) = 3
    /\ WordsPresent = 2
    /\ result.method \in FuzzyStrategies

(***************************************************************************)
(* More properties of verify_keyword_in_media_cards (Spec)                 *)
(***************************************************************************)
\* the card the loop is at was scored
CurrentScored ==
    /\ CurrentCard.raises = "none"
    /\ combined_metadata(CurrentCard.metadata) # <<>>

\* C24: after each record, with deep_check on or off, matched + the number
\* of mismatch entries = total and 0 <= matched <= total <= 150; a record
\* matched through the dialog only has no mismatch entry, and a record that
\* matched is not deep-checked.
C24_Accounting ==
    InLoop =>
        /\ matched + Len(mismatch_details) = total
        /\ 0 <= matched
        /\ matched <= total
        /\ total <= CardCap
        /\ \A k \in 1..card_idx : Cardinality(EntriesOf(k)) <= 1
        /\ CurrentScored =>
               /\ result.is_match => dialog_result = NotCalled /\ EntriesOf(card_idx) = {}
               /\ dialog_result.is_match => ~result.is_match /\ EntriesOf(card_idx) = {}
               /\ (~result.is_match /\ ~dialog_result.is_match) =>
                      Cardinality(EntriesOf(card_idx)) = 1
               /\ dialog_result # NotCalled => deep_check

C24_Witness ==
    /\ pc = "done"
    /\ deep_check
    /\ card_idx = 2
    /\ CurrentScored
    /\ ~result.is_match
    /\ dialog_result.is_match
    /\ returned[1] = 1
    /\ Len(returned[3]) = 1

(***************************************************************************)
(* ValidationHandler.validate_sequence of                                  *)
(* NIMAR/uploads/upload-sequence-validation.py: the modal is opened on the *)
(* first thumbnail, the file it shows is compared with the expected        *)
(* extension, and the Next arrow leads to the following file.              *)
(***************************************************************************)
IndexesOf(c, s) == {i \in 1..Len(s) : s[i] = c}

\* str.rfind(c) + 1: 0 when c does not occur
rfind(c, s) ==
    IF IndexesOf(c, s) = {} THEN 0
    ELSE CHOOSE i \in IndexesOf(c, s) : \A j \in IndexesOf(c, s) : j <= i

\* os.path.splitext(p)[1]: the text from the last dot of the last path
\* component on, unless only dots precede it in that component
splitext(p) ==
    IF /\ rfind(".", p) > rfind("/", p)
       /\ \E k \in (rfind("/", p) + 1)..(rfind(".", p) - 1) : p[k] # "."
    THEN SubSeq(p, rfind(".", p), Len(p))
    ELSE <<>>

\* file_url.split("?")[0]
before_query(url) ==
    IF IndexesOf("?", url) = {} THEN url
    ELSE SubSeq(url, 1, (CHOOSE i \in IndexesOf("?", url) :
                            \A j \in IndexesOf("?", url) : i <= j) - 1)

\* [os.path.splitext(f)[1].lower() for f in expected_files]
expected_exts == [i \in 1..Len(expected_files) |-> lower(splitext(expected_files[i]))]

ProfilePics == <<"p","r","o","f","i","l","e","_","p","i","c","s">>

DepartmentLogos == <<"d","e","p","a","r","t","m","e","n","t","_","l","o","g","o","s">>

\* the src of an avatar or of a department logo is passed over
skipped_src(src) == Contains(ProfilePics, src) \/ Contains(DepartmentLogos, src)

\* the first img src of the modal that is set and is not passed over
first_img_src(srcs) ==
    IF \E i \in 1..Len(srcs) : srcs[i] # <<>> /\ ~skipped_src(srcs[i])
    THEN srcs[CHOOSE i \in 1..Len(srcs) :
                /\ srcs[i] # <<>> /\ ~skipped_src(srcs[i])
                /\ \A j \in 1..(i - 1) : srcs[j] = <<>> \/ skipped_src(srcs[j])]
    ELSE <<>>

\* file_url: the data of the object, else the src of the video, else the
\* first img src, else what the pattern of the bucket finds in the HTML;
\* <<>> is None
file_url(view) ==
    IF view.object_data # <<>> THEN view.object_data
    ELSE IF view.video_src # <<>> THEN view.video_src
    ELSE IF first_img_src(view.img_srcs) # <<>> THEN first_img_src(view.img_srcs)
    ELSE view.html_url

\* the entry appended to results for one position
inspected(expected_ext, url) ==
    IF url # <<>>
    THEN [expected_ext |-> expected_ext, url |-> before_query(url),
          status |-> IF lower(splitext(before_query(url))) = expected_ext
                     THEN "MATCH" ELSE "FAIL"]
    ELSE [expected_ext |-> expected_ext, url |-> <<>>, status |-> "FAIL"]

\* all(s == "MATCH" for _, _, s in results)
all_match(rs) == \A i \in 1..Len(rs) : rs[i].status = "MATCH"

MaxFiles == 2

View(object_data, video_src, img_srcs, html_url, raises) ==
    [object_data |-> object_data, video_src |-> video_src, img_srcs |-> img_srcs,
     html_url |-> html_url, raises |-> raises]

PdfView == View(<<"u","/","b",".","p","d","f">>, <<>>, <<>>, <<>>, FALSE)

VideoView == View(<<>>, <<"u",".","s","/","a",".","M","P","4","?","t","=","1",".","5">>,
                  <<>>, <<>>, FALSE)

ImageView ==
    View(<<>>, <<>>,
         << <<"p","r","o","f","i","l","e","_","p","i","c","s","/","m",".","j","p","g">>,
            <<>>,
            <<"u","/","c",".","p","n","g">> >>,
         <<"u","/","b",".","p","d","f">>, FALSE)

EmptyView == View(<<>>, <<>>, <<>>, <<>>, FALSE)

BrokenView == View(<<>>, <<>>, <<>>, <<>>, TRUE)

ModalViews == {PdfView, VideoView, ImageView, EmptyView, BrokenView}

UploadedFiles ==
    { <<"a",".","m","p","4">>, <<"d",".","1","/","b",".","P","D","F">>,
      <<"c",".","p","n","g">> }

SequencesUpTo(S, n) == UNION {[1..k -> S] : k \in 0..n}

\* validate_sequence(expected_files) is about to run on a page whose modal
\* shows views[i] at position i
InitSequence ==
    /\ expected_files \in SequencesUpTo(UploadedFiles, MaxFiles)
    /\ views \in [1..MaxFiles -> ModalViews]
    /\ modal \in {"ok", "raises", "no_bucket"}
    /\ next_fails \in 0..(MaxFiles - 1)
    /\ seq_idx = 0
    /\ results = <<>>
    /\ all_matched = "none"
    /\ pc = "seq_open"
    /\ ScorerIdle /\ VerifyIdle /\ OtpIdle /\ UploadIdle /\ SortingIdle

\* The thumbnail is clicked and the modal awaited; a failure there is caught
\* by the outer handler, which returns False, and a modal without bucket URL
\* (none in the HTML, none in the environment) returns False as well.
OpenModal ==
    /\ pc = "seq_open"
    /\ results' = <<>>
    /\ IF modal = "ok"
       THEN /\ pc' = IF expected_files = <<>> THEN "seq_report" ELSE "seq_file"
            /\ UNCHANGED all_matched
       ELSE /\ pc' = "seq_done"
            /\ all_matched' = "False"
    /\ UNCHANGED <<expected_files, modal, views, next_fails, seq_idx>>
    /\ UNCHANGED <<scorer_vars, verify_vars, otp_vars, upload_vars, sorting_vars>>

\* One pass of the loop over expected_exts: the file of the modal is looked
\* up and recorded, then the Next arrow is clicked unless this was the last
\* expected file; a Next arrow that cannot be clicked breaks the loop.
InspectFile ==
    /\ pc = "seq_file"
    /\ seq_idx' = seq_idx + 1
    /\ IF views[seq_idx + 1].raises
       THEN /\ pc' = "seq_done"
            /\ all_matched' = "False"
            /\ UNCHANGED results
       ELSE /\ results' = Append(results, inspected(expected_exts[seq_idx + 1],
                                                    file_url(views[seq_idx + 1])))
            /\ pc' = IF seq_idx + 1 < Len(expected_exts) /\ next_fails # seq_idx + 1
                     THEN "seq_file" ELSE "seq_report"
            /\ UNCHANGED all_matched
    /\ UNCHANGED <<expected_files, modal, views, next_fails>>
    /\ UNCHANGED <<scorer_vars, verify_vars, otp_vars, upload_vars, sorting_vars>>

\* the final report and the return of all_matched
Report ==
    /\ pc = "seq_report"
    /\ all_matched' = IF all_match(results) THEN "True" ELSE "False"
    /\ pc' = "seq_done"
    /\ UNCHANGED <<expected_files, modal, views, next_fails, seq_idx, results>>
    /\ UNCHANGED <<scorer_vars, verify_vars, otp_vars, upload_vars, sorting_vars>>

NextSequence == OpenModal \/ InspectFile \/ Report

SpecSequence == InitSequence /\ [][NextSequence]_vars

\* the extension validate_sequence detects at position i of the modal
DetectedExt(i) == lower(splitext(before_query(file_url(views[i]))))

\* position i was inspected and showed a file of the expected extension
InspectedAndMatching(i) ==
    /\ i <= Len(results)
    /\ file_url(views[i]) # <<>>
    /\ DetectedExt(i) = expected_exts[i]

\* C25: once the modal is open, validate_sequence returns True if and only if
\* every position of expected_files was inspected in the modal and showed a
\* file whose detected extension is the expected one; a Next arrow that fails
\* before the last expected file makes it return False.
C25_TrueIffAllInspectedAndMatching ==
    (pc = "seq_done" /\ modal = "ok") =>
        (all_matched = "True" <=>
            \A i \in 1..Len(expected_files) : InspectedAndMatching(i))

\* the Next arrow fails after a matching first file and True is returned
C25_BreakReturnsTrue ==
    /\ pc = "seq_done"
    /\ all_matched = "True"
    /\ next_fails = 1
    /\ Len(expected_files) = 2
    /\ Len(results) = 1

(***************************************************************************)
(* get_latest_otp_after_request of NIMAR/auth/otp.py: the inbox is polled  *)
(* up to self.retries times for a message with a six-digit code.  Times    *)
(* are hours on a clock; the INTERNALDATE of a message is the reading      *)
(* `clock` of a clock that is `zone` hours ahead of UTC.                   *)
(***************************************************************************)
\* the positions where \b\d{6}\b matches
otp_positions(body) ==
    {i \in 1..(Len(body) - 5) :
        /\ \A k \in 0..5 : IsDigit(body[i + k])
        /\ i = 1 \/ ~IsWordChar(body[i - 1])
        /\ i + 6 > Len(body) \/ ~IsWordChar(body[i + 6])}

\* re.search(r"\b\d{6}\b", body): the first match, <<>> when there is none
otp_search(body) ==
    IF otp_positions(body) = {} THEN <<>>
    ELSE SubSeq(body,
                CHOOSE i \in otp_positions(body) : \A j \in otp_positions(body) : i <= j,
                (CHOOSE i \in otp_positions(body) : \A j \in otp_positions(body) : i <= j) + 5)

\* what one poll finds: mail.search or mail.fetch raises, the inbox is empty,
\* or the latest message, with the date and zone of its INTERNALDATE, whether
\* the response part read holds a date the pattern of line 273 finds, and
\* its body
Poll(kind, clock, zone, dated, body) ==
    [kind |-> kind, clock |-> clock, zone |-> zone, dated |-> dated, body |-> body]

RaisingPoll == Poll("raises", 0, 0, FALSE, <<>>)

EmptyInbox == Poll("empty", 0, 0, FALSE, <<>>)

FreshCode == Poll("message", 3, 0, TRUE, <<"a"," ","6","5","4","3","2","1",".">>)

OldCode == Poll("message", 1, 0, TRUE, <<"1","2","3","4","5","6">>)

OldCodeUndated == Poll("message", 1, 0, FALSE, <<"1","2","3","4","5","6">>)

OldCodeAhead == Poll("message", 3, 2, TRUE, <<"1","2","3","4","5","6">>)

FreshNoCode == Poll("message", 3, 0, TRUE, <<"n","o">>)

FreshLongNumber == Poll("message", 3, 0, TRUE, <<"i","d"," ","1","2","3","4","5","6","7">>)

Polls ==
    {RaisingPoll, EmptyInbox, FreshCode, OldCode, OldCodeUndated, OldCodeAhead,
     FreshNoCode, FreshLongNumber}

MaxRetries == 2

\* datetime.strptime(match.group(), "%d-%b-%Y %H:%M:%S"): the reading of the
\* clock, without its zone
email_time(m) == m.clock

\* the return value: a code, or None
Returned_otp(code) == [returned |-> TRUE, code |-> code]

None == Returned_otp(<<>>)

\* An OTP was requested at request_time and the handler starts to poll.
InitOtp ==
    /\ request_time \in {[clock |-> 2, aware |-> a] : a \in BOOLEAN}
    /\ retries \in 1..MaxRetries
    /\ imap \in [connect : {"ok", "raises"}, logout : {"ok", "raises"}]
    /\ mailbox \in [1..retries -> Polls]
    /\ polls = 0
    /\ otp = NoOtp
    /\ pc = "otp_connect"
    /\ ScorerIdle /\ VerifyIdle /\ SequenceIdle /\ UploadIdle /\ SortingIdle

\* IMAP4_SSL, login, select: a raise is caught and None returned
Connect ==
    /\ pc = "otp_connect"
    /\ IF imap.connect = "raises"
       THEN pc' = "otp_done" /\ otp' = None
       ELSE pc' = "otp_poll" /\ UNCHANGED otp
    /\ UNCHANGED <<request_time, retries, imap, mailbox, polls>>
    /\ UNCHANGED <<scorer_vars, verify_vars, sequence_vars, upload_vars, sorting_vars>>

\* return otp after mail.logout(), whose raise is caught as well
return_otp(code) ==
    otp' = IF imap.logout = "raises" THEN None ELSE Returned_otp(code)

\* email_time <= request_time: a datetime without zone cannot be compared
\* with one that has a zone (TypeError)
compare_raises(m) == m.dated /\ request_time.aware

\* the message is passed over as not newer than the request
too_old(m) == m.dated /\ email_time(m) <= request_time.clock

\* one pass of the loop of line 261 over the latest message m
poll_step(m) ==
    IF m.kind = "raises" \/ (m.kind = "message" /\ compare_raises(m))
    THEN pc' = "otp_done" /\ otp' = None
    ELSE IF m.kind = "empty" \/ too_old(m) \/ otp_search(m.body) = <<>>
    THEN UNCHANGED <<pc, otp>>
    ELSE pc' = "otp_done" /\ return_otp(otp_search(m.body))

PollInbox ==
    /\ pc = "otp_poll"
    /\ polls < retries
    /\ polls' = polls + 1
    /\ poll_step(mailbox[polls + 1])
    /\ UNCHANGED <<request_time, retries, imap, mailbox>>
    /\ UNCHANGED <<scorer_vars, verify_vars, sequence_vars, upload_vars, sorting_vars>>

\* after the last poll: mail.logout() and return None
GiveUp ==
    /\ pc = "otp_poll"
    /\ polls >= retries
    /\ pc' = "otp_done"
    /\ otp' = None
    /\ UNCHANGED <<request_time, retries, imap, mailbox, polls>>
    /\ UNCHANGED <<scorer_vars, verify_vars, sequence_vars, upload_vars, sorting_vars>>

NextOtp == Connect \/ PollInbox \/ GiveUp

SpecOtp == InitOtp /\ [][NextOtp]_vars

\* when the message arrived, on the clock of the request (UTC)
ArrivalTime(m) == m.clock - m.zone

\* C26: a code that get_latest_otp_after_request returns comes from a message
\* that arrived after request_time.
C26_OtpOnlyFromLaterMessage ==
    (pc = "otp_done" /\ otp.code # <<>>) =>
        ArrivalTime(mailbox[polls]) > request_time.clock

\* a code is returned from a message whose date was never compared
C26_UndatedCodeReturned ==
    /\ pc = "otp_done"
    /\ otp.code # <<>>
    /\ ~mailbox[polls].dated
    /\ ArrivalTime(mailbox[polls]) < request_time.clock

\* the latest message of poll k arrived after the request and holds a code
Qualifies(k) ==
    /\ mailbox[k].kind = "message"
    /\ ArrivalTime(mailbox[k]) > request_time.clock
    /\ otp_search(mailbox[k].body) # <<>>

FirstQualifying == CHOOSE k \in 1..retries : Qualifies(k) /\ \A j \in 1..(k - 1) : ~Qualifies(j)

\* a mailbox operation the call performs fails
MailboxFails ==
    \/ imap.connect = "raises"
    \/ imap.logout = "raises"
    \/ \E k \in 1..polls : mailbox[k].kind = "raises"

\* C27: get_latest_otp_after_request makes at most `retries` polls; it returns
\* the six-digit code of the first poll whose latest message qualifies, and
\* None when no poll qualifies or a mailbox operation fails.
C27_PollsBoundedAndFirstQualifying ==
    pc = "otp_done" =>
        /\ polls <= retries
        /\ otp.returned
        /\ IF MailboxFails THEN otp = None
           ELSE IF \E k \in 1..retries : Qualifies(k)
           THEN /\ polls = FirstQualifying
                /\ otp.code = otp_search(mailbox[FirstQualifying].body)
           ELSE otp = None

\* the request time carries a zone, as the callers' does, and the message
\* that qualifies is answered with None
C27_QualifyingPollGivesNone ==
    /\ pc = "otp_done"
    /\ ~MailboxFails
    /\ request_time.aware
    /\ polls = 1
    /\ Qualifies(1)
    /\ otp = None

(***************************************************************************)
(* _wait_and_click_start and _click_portal_start_upload of                 *)
(* NIMAR/uploads/single_zipfile_upload.py (UploadHandler and, with the     *)
(* same loops, UploadAutomationSuite).  `events` lists what the current    *)
(* attempt of _wait_and_click_start did to the page.                       *)
(***************************************************************************)
\* the defaults of env_variables.py
WAIT_AND_CLICK_START_MAX_RETRIES == 2

CLICK_PORTAL_START_UPLOAD_MAX_RETRIES == 3

START_UPLOAD_ENABLED_CHECK_MAX_ATTEMPTS == 10

MaxStartRetries == 2

\* max_retries after 'if max_retries is None'
start_limit(mr) == IF mr.given THEN mr.value ELSE WAIT_AND_CLICK_START_MAX_RETRIES

Event(what, enabled, landed) == [what |-> what, enabled |-> enabled, landed |-> landed]

\* su_btn.click() was issued: after is_enabled() was seen true or not, and
\* with or without success of the click or of its fallback
ClickEvent(enabled, landed) == Event("click", enabled, landed)

CancelEvent == Event("cancel", FALSE, FALSE)

ReselectEvent == Event("reselect", FALSE, FALSE)

ReselectFailedEvent == Event("reselect_failed", FALSE, FALSE)

\* the mutant of after_click: a cancellation is not looked at
after_click_ignoring_cancel(canceled, reselected) == "True"

\* what _wait_and_click_start does once Start Upload was clicked: return
\* True, or, when the upload was canceled, re-select the file and continue
\* with the next attempt, or return False when the file cannot be re-selected
after_click(canceled, reselected) ==
    IF ~canceled THEN "True"
    ELSE IF reselected THEN "continue"
    ELSE "False"

\* whether the loop of is_enabled() checks saw the button enabled, when it is
\* enabled from check number first_enabled on
enabled_seen(first_enabled, checks) == first_enabled <= checks

\* _wait_and_click_start(zip_file, uploaded_filename, max_retries) is called
InitUpload ==
    /\ max_retries \in {Unset} \cup {Given(n) : n \in 0..MaxStartRetries}
    /\ attempt = 0
    /\ click_attempt = 0
    /\ events = <<>>
    /\ started = "none"
    /\ pc = "up_attempt"
    /\ ScorerIdle /\ VerifyIdle /\ SequenceIdle /\ OtpIdle /\ SortingIdle

\* The next pass of the loop of _wait_and_click_start: the header and the
\* tile of the file are awaited (a timeout is logged only) and
\* _click_portal_start_upload is called.
BeginAttempt ==
    /\ pc = "up_attempt"
    /\ attempt < start_limit(max_retries)
    /\ attempt' = attempt + 1
    /\ click_attempt' = 0
    /\ events' = <<>>
    /\ pc' = "up_click"
    /\ UNCHANGED <<max_retries, started>>
    /\ UNCHANGED <<scorer_vars, verify_vars, sequence_vars, otp_vars, sorting_vars>>

\* One pass of the loop of _click_portal_start_upload.  located: the button
\* is found, read and scrolled to without a raise; first_enabled: the number
\* of the is_enabled() check from which the button is enabled; landed: the
\* click, or its fallback through page.evaluate, does not raise.
ClickAttempt ==
    /\ pc = "up_click"
    /\ click_attempt < CLICK_PORTAL_START_UPLOAD_MAX_RETRIES
    /\ click_attempt' = click_attempt + 1
    /\ \E located \in BOOLEAN, landed \in BOOLEAN,
          first_enabled \in {1, START_UPLOAD_ENABLED_CHECK_MAX_ATTEMPTS,
                             START_UPLOAD_ENABLED_CHECK_MAX_ATTEMPTS + 1} :
          IF located
          THEN /\ events' = Append(events,
                        ClickEvent(enabled_seen(first_enabled,
                                                START_UPLOAD_ENABLED_CHECK_MAX_ATTEMPTS),
                                   landed))
               /\ pc' = IF landed THEN "up_clicked" ELSE "up_click"
          ELSE UNCHANGED <<events, pc>>
    /\ UNCHANGED <<max_retries, attempt, started>>
    /\ UNCHANGED <<scorer_vars, verify_vars, sequence_vars, otp_vars, sorting_vars>>

\* _click_portal_start_upload returns False; _wait_and_click_start sleeps and
\* goes to its next attempt
ClickGivenUp ==
    /\ pc = "up_click"
    /\ click_attempt >= CLICK_PORTAL_START_UPLOAD_MAX_RETRIES
    /\ pc' = "up_attempt"
    /\ UNCHANGED <<max_retries, attempt, click_attempt, events, started>>
    /\ UNCHANGED <<scorer_vars, verify_vars, sequence_vars, otp_vars, sorting_vars>>

after_click_events(canceled, reselected) ==
    IF ~canceled THEN <<>>
    ELSE IF reselected THEN <<CancelEvent, ReselectEvent>>
    ELSE <<CancelEvent, ReselectFailedEvent>>

\* after the click: the browser dialog and the portal confirmation are
\* answered, then a cancellation is looked for
AfterClick ==
    /\ pc = "up_clicked"
    /\ \E canceled \in BOOLEAN, reselected \in BOOLEAN :
          /\ events' = events \o after_click_events(canceled, reselected)
          /\ IF after_click(canceled, reselected) = "continue"
             THEN pc' = "up_attempt" /\ UNCHANGED started
             ELSE pc' = "up_done" /\ started' = after_click(canceled, reselected)
    /\ UNCHANGED <<max_retries, attempt, click_attempt>>
    /\ UNCHANGED <<scorer_vars, verify_vars, sequence_vars, otp_vars, sorting_vars>>

\* the loop of _wait_and_click_start is exhausted: return False
Exhausted ==
    /\ pc = "up_attempt"
    /\ attempt >= start_limit(max_retries)
    /\ pc' = "up_done"
    /\ started' = "False"
    /\ UNCHANGED <<max_retries, attempt, click_attempt, events>>
    /\ UNCHANGED <<scorer_vars, verify_vars, sequence_vars, otp_vars, sorting_vars>>

NextUpload == BeginAttempt \/ ClickAttempt \/ ClickGivenUp \/ AfterClick \/ Exhausted

SpecUpload == InitUpload /\ [][NextUpload]_vars

\* C28: in every attempt of _click_portal_start_upload the click on Start
\* Upload is issued only after is_enabled() was observed true.
C28_ClickOnlyWhenEnabled ==
    \A i \in 1..Len(events) : events[i].what = "click" => events[i].enabled

\* the click lands on a button that was disabled in all the checks
C28_DisabledButtonClicked ==
    /\ pc = "up_clicked"
    /\ events[Len(events)].what = "click"
    /\ ~events[Len(events)].enabled

\* the attempts max_retries allows
AttemptsAllowed ==
    IF max_retries.given THEN max_retries.value ELSE WAIT_AND_CLICK_START_MAX_RETRIES

HasEvent(what) == \E i \in 1..Len(events) : events[i].what = what

\* the last thing the current attempt did was a click that landed
EndsWithClick ==
    /\ events # <<>>
    /\ events[Len(events)].what = "click"
    /\ events[Len(events)].landed

\* C29: _wait_and_click_start makes at most max_retries attempts; it returns
\* True only if its last attempt clicked Start Upload and detected no
\* cancellation afterwards; after a cancellation the file is re-selected
\* before the next attempt; a failed re-selection returns False at once; and
\* exhausting the attempts returns False.
C29_WaitAndClickStart ==
    /\ attempt <= AttemptsAllowed
    /\ started = "True" => (EndsWithClick /\ ~HasEvent("cancel"))
    /\ (pc = "up_attempt" /\ HasEvent("cancel")) =>
           events[Len(events)] = ReselectEvent
    /\ HasEvent("reselect_failed") => (pc = "up_done" /\ started = "False")
    /\ (pc = "up_done" /\ ~EndsWithClick) => started = "False"
    /\ pc = "up_done" <=> started # "none"

\* a second attempt clicked Start Upload, no cancellation was detected and
\* True was returned
C29_Witness ==
    /\ pc = "up_done"
    /\ started = "True"
    /\ attempt = 2
    /\ EndsWithClick

(***************************************************************************)
(* SimpleSearchFunctions.verify_sorting of                                 *)
(* NIMAR/search/elastic-search-advance-search-timeline.py.  The labels are *)
(* written with "-" for the en dash of the page, which no test of the      *)
(* function looks at.                                                      *)
(***************************************************************************)
\* the characters of the titles in the order of their code points
CodePoints ==
    <<" ","0","1","2","3","4","5","6","7","8","9">> \o UpperLetters \o <<"_">> \o LowerLetters

ord(c) == CHOOSE i \in DOMAIN CodePoints : CodePoints[i] = c

\* s <= t for str
str_le(s, t) ==
    \/ Len(s) <= Len(t) /\ \A i \in 1..Len(s) : s[i] = t[i]
    \/ \E i \in 1..Min2(Len(s), Len(t)) :
          /\ \A j \in 1..(i - 1) : s[j] = t[j]
          /\ ord(s[i]) < ord(t[i])

\* a comes before b, or is equal to it, in sorted(...) of a list of str or of
\* int, in reverse order with reverse=True
in_order(kind, reverse, a, b) ==
    IF kind = "str"
    THEN IF reverse THEN str_le(b, a) ELSE str_le(a, b)
    ELSE IF reverse THEN b <= a ELSE a <= b

SameElements(xs, ys) ==
    \A v \in Range(xs) :
        Cardinality({i \in DOMAIN xs : xs[i] = v}) = Cardinality({i \in DOMAIN ys : ys[i] = v})

\* sorted(xs) and sorted(xs, reverse=True)
sorted(xs, kind, reverse) ==
    CHOOSE ys \in [1..Len(xs) -> Range(xs)] :
        /\ SameElements(xs, ys)
        /\ \A i \in 1..(Len(xs) - 1) : in_order(kind, reverse, ys[i], ys[i + 1])

NonEmpty(t) == t # <<>>

IsInt(d) == d.given

\* str.casefold(), on the letters of the model
casefold(t) == lower(t)

\* titles = [extract_card_title(c).strip() ...]; base; folded
folded_titles(cs) ==
    LET titles == [i \in 1..Len(cs) |-> strip(cs[i].title)]
        base   == SelectSeq(titles, NonEmpty)
    IN  [i \in 1..Len(base) |-> casefold(base[i])]

\* numeric = [d for d in dates if isinstance(d, int)]
numeric_dates(cs) ==
    LET dates   == [i \in 1..Len(cs) |-> cs[i].date]
        numeric == SelectSeq(dates, IsInt)
    IN  [i \in 1..Len(numeric) |-> numeric[i].value]

TitleWord == <<"T","i","t","l","e">>

NewestWord == <<"N","e","w","e","s","t">>

\* the branch for the titles
titles_ok(label, folded) ==
    IF Contains(<<"A">>, label)
    THEN folded = sorted(folded, "str", FALSE)
    ELSE folded = sorted(folded, "str", TRUE)

\* the branch for the dates
dates_ok(label, numeric) ==
    IF Len(numeric) >= 2
    THEN IF Contains(NewestWord, label)
         THEN numeric = sorted(numeric, "int", TRUE)
         ELSE numeric = sorted(numeric, "int", FALSE)
    ELSE TRUE

\* verify_sorting(mode_label) on a page whose results area is `ar` and shows
\* the cards cs
verify_sorting(label, ar, cs) ==
    IF ar # "visible" THEN FALSE
    ELSE IF Contains(TitleWord, label) THEN titles_ok(label, folded_titles(cs))
    ELSE dates_ok(label, numeric_dates(cs))

TitleAZ == <<"T","i","t","l","e"," ","(","A","-","Z",")">>

TitleZA == <<"T","i","t","l","e"," ","(","Z","-","A",")">>

DateNewest ==
    <<"D","a","t","e"," ","A","d","d","e","d"," ","(","N","e","w","e","s","t"," ",
      "F","i","r","s","t",")">>

DateOldest ==
    <<"D","a","t","e"," ","A","d","d","e","d"," ","(","O","l","d","e","s","t"," ",
      "F","i","r","s","t",")">>

ModeLabels == {TitleAZ, TitleZA, DateNewest, DateOldest}

MaxSortCards == 2

SortTitles == { <<>>, <<"A">>, <<" ","b"," ">> }

SortDates == {Unset, Given(1), Given(2)}

SortCards == {[title |-> t, date |-> d] : t \in SortTitles, d \in SortDates}

\* verify_sorting(mode_label) is called on a page that shows sort_cards
InitSorting ==
    /\ mode_label \in ModeLabels
    /\ area \in {"visible", "hidden", "raises"}
    /\ sort_cards \in SequencesUpTo(SortCards, MaxSortCards)
    /\ ok = "none"
    /\ pc = "sort_call"
    /\ ScorerIdle /\ VerifyIdle /\ SequenceIdle /\ OtpIdle /\ UploadIdle

\* the call runs to its return
VerifySorting ==
    /\ pc = "sort_call"
    /\ ok' = IF verify_sorting(mode_label, area, sort_cards) THEN "True" ELSE "False"
    /\ pc' = "sort_done"
    /\ UNCHANGED <<mode_label, area, sort_cards>>
    /\ UNCHANGED <<scorer_vars, verify_vars, sequence_vars, otp_vars, upload_vars>>

NextSorting == VerifySorting

SpecSorting == InitSorting /\ [][NextSorting]_vars

InOrder(xs, kind, reverse) ==
    \A i \in 1..(Len(xs) - 1) : in_order(kind, reverse, xs[i], xs[i + 1])

\* the order the label names holds for the cards of the page
NamedOrderHolds ==
    IF mode_label = TitleAZ THEN InOrder(folded_titles(sort_cards), "str", FALSE)
    ELSE IF mode_label = TitleZA THEN InOrder(folded_titles(sort_cards), "str", TRUE)
    ELSE IF mode_label = DateNewest THEN InOrder(numeric_dates(sort_cards), "int", TRUE)
    ELSE InOrder(numeric_dates(sort_cards), "int", FALSE)

\* C30: on a visible results area verify_sorting returns True exactly when the
\* cards are in the order the mode label names: titles (stripped, non-empty,
\* case-folded) ascending for 'Title (A-Z)' and descending for 'Title (Z-A)',
\* dates descending for 'Date Added (Newest First)' and ascending for
\* 'Date Added (Oldest First)'; with fewer than two dates it returns True.
C30_SortingJudgesNamedOrder ==
    (pc = "sort_done" /\ area = "visible") =>
        (ok = "True" <=> NamedOrderHolds)

\* titles in descending order are rejected under 'Title (Z-A)'
C30_DescendingTitlesRejected ==
    /\ pc = "sort_done"
    /\ area = "visible"
    /\ mode_label = TitleZA
    /\ NamedOrderHolds
    /\ ok = "False"

====
